---- MODULE Spec2Model ----
(***************************************************************************)
(* A model of dpcontracts.py: the argument binder (build_call), the        *)
(* condition wrapper (condition.require.inner) and the argument transform  *)
(* (transform.func.inner), stacked as decorators on one original callable. *)
(*                                                                         *)
(* Python values are modelled as integers (argument values) and sequences  *)
(* (tuples).  An argument record (the namedtuple 'Args') is modelled as a   *)
(* function from field names to values: predicates read a record by        *)
(* attribute name only.                                                    *)
(***************************************************************************)
EXTENDS Integers, Sequences, FiniteSets, TLC

(***************************************************************************)
(* Bounds of the model.                                                    *)
(***************************************************************************)
\* argument values are 0..MaxVal
MaxVal == 1
\* at most MaxLayers decorators are stacked on the original callable
MaxLayers == 2
\* at most MaxInvariants invariants are declared on the source type
MaxInvariants == 2
\* the program makes at most MaxCalls calls on the derived type
MaxCalls == 3

Vals == 0..MaxVal

\* nonce = object(): a value no caller can supply
NONCE == -1

NoKw == [k \in {} |-> 0]

Min(x, y) == IF x <= y THEN x ELSE y

Range(s) == {s[i] : i \in 1..Len(s)}

IndexOf(s, x) == CHOOSE i \in 1..Len(s) : s[i] = x

RECURSIVE SumSeq(_)
SumSeq(s) == IF s = <<>> THEN 0 ELSE Head(s) + SumSeq(Tail(s))

(***************************************************************************)
(* Parameter shapes: what getfullargspec returns for a callable.           *)
(*   named      positional-or-keyword parameter names, in declared order   *)
(*   vargs      name of the *args parameter, "" when there is none         *)
(*   varkw      name of the **kwargs parameter, "" when there is none      *)
(*   defs       default values, aligned to the last Len(defs) of named     *)
(*   kwonly     keyword-only parameter names                               *)
(*   kwonlydefs defaults of the keyword-only parameters that have one      *)
(***************************************************************************)
\* def add2(i, j): two required parameters (named a, b here)
ShapeAB ==
  [name |-> "add2", named |-> <<"a", "b">>, vargs |-> "", varkw |-> "",
   defs |-> <<>>, kwonly |-> <<>>, kwonlydefs |-> NoKw]

\* def func(a, b="Foo", *c)
ShapeVar ==
  [name |-> "func", named |-> <<"a", "b">>, vargs |-> "c", varkw |-> "",
   defs |-> <<0>>, kwonly |-> <<>>, kwonlydefs |-> NoKw]

\* def func(a, b, c=38)
ShapeDef ==
  [name |-> "func3", named |-> <<"a", "b", "c">>, vargs |-> "", varkw |-> "",
   defs |-> <<0>>, kwonly |-> <<>>, kwonlydefs |-> NoKw]

\* a callable with a keyword-only parameter without default: def g(a, *, k)
ShapeKwo ==
  [name |-> "g", named |-> <<"a">>, vargs |-> "", varkw |-> "",
   defs |-> <<>>, kwonly |-> <<"k">>, kwonlydefs |-> NoKw]

\* the shape of every wrapper 'inner': a variadic positional parameter args
\* and a variadic keyword parameter kwargs
ShapeInner(name) ==
  [name |-> name, named |-> <<>>, vargs |-> "args", varkw |-> "kwargs",
   defs |-> <<>>, kwonly |-> <<>>, kwonlydefs |-> NoKw]

\* every declared parameter name of a shape that takes one value
Params(shape) == Range(shape.named) \cup Range(shape.kwonly)

(***************************************************************************)
(* dict.update and zip, as build_call uses them.                           *)
(***************************************************************************)
Update(d, e) ==
  [k \in DOMAIN d \cup DOMAIN e |-> IF k \in DOMAIN e THEN e[k] ELSE d[k]]

\* dict(zip(named, args))
ZipArgs(named, args) ==
  [k \in {named[i] : i \in 1..Min(Len(named), Len(args))} |->
     args[IndexOf(named, k)]]

\* dict(zip(reversed(named), reversed(defs)))
ZipDefaultsFirst(named, defs) ==
  [k \in {named[i] : i \in 1..Min(Len(named), Len(defs))} |->
     defs[IndexOf(named, k)]]

ZipDefaults(named, defs) ==
  [k \in {named[Len(named) - i] : i \in 0..(Min(Len(named), Len(defs)) - 1)} |->
     defs[Len(defs) - (Len(named) - IndexOf(named, k))]]

(***************************************************************************)
(* build_call on a resolved shape.  The result is                          *)
(*   [exc |-> "", rec |-> the record]             on success               *)
(*   [exc |-> "TypeError", param |-> p, ...]      when p is still the nonce *)
(***************************************************************************)
Bound(rec) == [exc |-> "", what |-> "", by |-> "", param |-> "", rec |-> rec]

BindError(what, by, p) ==
  [exc |-> "TypeError", what |-> what, by |-> by, param |-> p, rec |-> <<>>]

Missing(by, p) == BindError("missing", by, p)

\* actual.update(kwargs) left out: keyword arguments never reach the record
OverlayNoKw(actual, kwargs) == actual

OverlayKw(actual, kwargs) == Update(actual, kwargs)

\* the value captured for *vargs
VarTailAll(named, args) == args

VarTail(named, args) == SubSeq(args, Len(named) + 1, Len(args))

build_call_shape(shape, args, kwargs) ==
  LET named   == shape.named
      actual0 == [k \in Range(named) |-> NONCE]
      actual1 == Update(actual0, shape.kwonlydefs)
      actual2 == Update(actual1, ZipDefaults(named, shape.defs))
      actual3 == Update(actual2, ZipArgs(named, args))
      actual4 == IF shape.vargs # ""
                 THEN Update(actual3,
                        [k \in {shape.vargs} |-> VarTail(named, args)])
                 ELSE actual3
      actual  == OverlayKw(actual4, kwargs)
      unset   == {i \in 1..Len(named) : actual[named[i]] = NONCE}
  IN IF unset # {}
     THEN Missing("build_call", named[CHOOSE i \in unset : \A j \in unset : i <= j])
     ELSE Bound(actual)

(***************************************************************************)
(* The interpreter's own binding of a call of the original callable to its *)
(* parameters: the values the body receives, or                            *)
(* the TypeError the call raises before the body runs.                     *)
(***************************************************************************)
Least(S) == CHOOSE x \in S : \A y \in S : x <= y

\* positions of named parameters given positionally and again by keyword
Collisions(shape, args, kwargs) ==
  {i \in 1..Min(Len(shape.named), Len(args)) : shape.named[i] \in DOMAIN kwargs}

\* keyword names the callable does not declare
Unexpected(shape, kwargs) ==
  IF shape.varkw # "" THEN {} ELSE DOMAIN kwargs \ Params(shape)

\* declared parameters left without a value: no positional argument, no
\* keyword argument and no default
Unsupplied(shape, args, kwargs) ==
  {p \in Params(shape) :
     /\ p \notin DOMAIN kwargs
     /\ p \notin DOMAIN shape.kwonlydefs
     /\ p \notin DOMAIN ZipDefaults(shape.named, shape.defs)
     /\ p \notin DOMAIN ZipArgs(shape.named, args)}

PyBind(shape, args, kwargs) ==
  LET named == shape.named
      coll  == Collisions(shape, args, kwargs)
      unexp == Unexpected(shape, kwargs)
      unsup == Unsupplied(shape, args, kwargs)
      known == [k \in DOMAIN kwargs \cap Params(shape) |-> kwargs[k]]
      base  == Update(Update(Update(shape.kwonlydefs,
                                    ZipDefaults(named, shape.defs)),
                             ZipArgs(named, args)),
                      known)
      tail  == IF shape.vargs # ""
               THEN [k \in {shape.vargs} |-> SubSeq(args, Len(named) + 1, Len(args))]
               ELSE NoKw
  IN IF coll # {}
     THEN BindError("multiple", "python", named[Least(coll)])
     ELSE IF unexp # {}
     THEN BindError("unexpected", "python", CHOOSE k \in unexp : TRUE)
     ELSE IF shape.vargs = "" /\ Len(args) > Len(named)
     THEN BindError("toomany", "python", "")
     ELSE IF unsup # {}
     THEN BindError("missing", "python", CHOOSE p \in unsup : TRUE)
     ELSE Bound(Update(base, tail))

(***************************************************************************)
(* The calls a caller writes against a shape: a positional argument for    *)
(* some or all of the named parameters, one more where the shape has a     *)
(* variadic tail to take it, and any keyword arguments among the shape's   *)
(* parameter names.                                                        *)
(***************************************************************************)
MaxPositional(shape) ==
  Len(shape.named) + (IF shape.vargs # "" THEN 1 ELSE 0)

SeqsUpTo(n) == UNION {[1..m -> Vals] : m \in 0..n}

KwArgs(names) == UNION {[S -> Vals] : S \in SUBSET names}

Calls(shape) ==
  {[args |-> a, kwargs |-> kw] :
     a \in SeqsUpTo(MaxPositional(shape)), kw \in KwArgs(Params(shape))}

NoCall == [args |-> <<>>, kwargs |-> NoKw]

(***************************************************************************)
(* State.                                                                  *)
(*   shape    the parameter shape of the original (undecorated) callable   *)
(*   layers   the decorators applied so far, innermost first: layers[i] is *)
(*            callable i, the original is callable 0                       *)
(*   attr     attr[i]: the __contract_wrapped_func__ attribute of callable *)
(*            i (has: whether it is set, to: the callable it names)        *)
(*   pc       "define" (decorating), "enter" (a call is on its way in),    *)
(*            "exit" (a result is on its way out), "done" (the call ended) *)
(*   call     the caller's positional and keyword arguments                *)
(*   level    the callable the call is about to enter, or return into      *)
(*   passed   the arguments handed to callable level                       *)
(*   frames   per entered callable: the arguments it received, the         *)
(*            callable whose shape it bound against, and the binding       *)
(*   result   the value on its way out                                     *)
(*   outcome  how the call ended, as its caller sees it                    *)
(*   events   predicate evaluations, rewrites and body runs, in order      *)
(*   effects  the body's side effects: the values of each run of the body  *)
(*   bpc, call1, res1, call2, res2   build_call applied to two calls       *)
(***************************************************************************)
VARIABLES shape, layers, attr, pc, call, level, passed, frames, result,
          outcome, events, effects, bpc, call1, res1, call2, res2

(***************************************************************************)
(* State of a type derived by invariant and of one instance of it.         *)
(*   source    the source type: whether it declares __init__, and its      *)
(*             class attributes                                            *)
(*   invs      the invariants applied so far, in the order the decorators  *)
(*             are applied (the decorator written last is applied first)   *)
(*   table     the attributes of the derived type: per method name its     *)
(*             kind on the source type and the invariant wrappers around   *)
(*             it, innermost first                                         *)
(*   ipc       "derive" (decorating), "run" (a call is in progress),       *)
(*             "idle" (between calls)                                      *)
(*   obj       the instance: whether construction handed it back, and its  *)
(*             attributes as an invariant predicate reads them             *)
(*   stack     the call stack: one frame per method call in progress       *)
(*   iresult   the value on its way out of a method                        *)
(*   ievents   invariant evaluations and body runs of the current call of  *)
(*             the program, in order                                       *)
(*   ioutcome  how the current call of the program ended                   *)
(*   start     the instance's attributes when the current call began       *)
(*   cur       the current call of the program: method, receiver, argument *)
(*   prev      the call before it and how it ended                         *)
(*   ncalls    calls the program has made                                  *)
(***************************************************************************)
VARIABLES source, invs, table, ipc, obj, stack, iresult, ievents, ioutcome,
          start, cur, prev, ncalls

cvars == <<layers, attr, pc, call, level, passed, frames, result, outcome,
           events, effects>>

bvars == <<bpc, call1, res1, call2, res2>>

ivars == <<source, invs, table, ipc, obj, stack, iresult, ievents, ioutcome,
           start, cur, prev, ncalls>>

(***************************************************************************)
(* Further state.                                                          *)
(*   declared  with enforcement disabled (python -O): the declarations the *)
(*             program has made, each of which returned its input          *)
(*   decl      one declaration followed from the call that makes the       *)
(*             decorator to its application                                *)
(*   th        two invocations of the same wrapped callable in progress at *)
(*             once: per invocation the locals of every inner it is in     *)
(*   types     the source type and every type derived from it so far       *)
(***************************************************************************)
VARIABLES declared, decl, th, types

xvars == <<declared, decl, th, types>>

vars == <<shape, cvars, bvars, ivars, xvars>>

(***************************************************************************)
(* Resolving a callable to the one whose signature is read.                *)
(***************************************************************************)
NoAttr == [has |-> FALSE, to |-> 0]

RECURSIVE get_wrapped_func(_, _)
get_wrapped_func(at, f) ==
  IF f \in DOMAIN at /\ at[f].has THEN get_wrapped_func(at, at[f].to) ELSE f

\* getfullargspec does not follow __wrapped__: a wrapper shows its own shape
getfullargspec(f) == IF f = 0 THEN shape ELSE ShapeInner(shape.name)

build_call(f, args, kwargs) ==
  build_call_shape(getfullargspec(get_wrapped_func(attr, f)), args, kwargs)

(***************************************************************************)
(* Contract declarations.  A predicate is modelled by the field it reads   *)
(* and the value it rejects; reading a field the record lacks raises       *)
(* AttributeError.                                                         *)
(***************************************************************************)
Fields == {"a", "b"}

\* the description a program gives the precondition "field f is not v"
RequireDesc(f, v) ==
  IF f = "a"
  THEN IF v = 0 THEN "a must be nonzero"
       ELSE IF v = 1 THEN "a must not be 1"
       ELSE IF v = 2 THEN "a must not be 2"
       ELSE "a must not be large"
  ELSE IF v = 0 THEN "b must be nonzero"
       ELSE IF v = 1 THEN "b must not be 1"
       ELSE IF v = 2 THEN "b must not be 2"
       ELSE "b must not be large"

\* the description a program gives the postcondition "the result is not f"
EnsureDesc(f) ==
  IF f = "a" THEN "the result must differ from a"
  ELSE "the result must differ from b"

\* the fields the postconditions of a program read
EnsureFields == {"a"}

\* (description, predicate) pairs a program passes to require
Preconditions ==
  {[desc |-> RequireDesc(f, v), field |-> f, bad |-> v] : f \in Fields, v \in Vals}

\* (description, predicate) pairs a program passes to ensure
Postconditions ==
  {[desc |-> EnsureDesc(f), field |-> f, bad |-> 0] : f \in EnsureFields}

\* the rewriters a program passes to transform
Transformers == {[desc |-> "", field |-> "a", bad |-> 0]}

\* the wrapper a decorator makes: deco names the decorator, kind the wrapper
\* function ("condition": condition.require.inner, "transform":
\* transform.func.inner)
condition(deco, description, predicate, precondition, postcondition) ==
  [deco |-> deco, kind |-> "condition", desc |-> description,
   field |-> predicate.field, bad |-> predicate.bad,
   precondition |-> precondition, postcondition |-> postcondition]

require(description, predicate) ==
  condition("require", description, predicate, TRUE, FALSE)

\* ensure passing require's flags
ensure_as_require(description, predicate) ==
  condition("ensure", description, predicate, TRUE, FALSE)

ensure(description, predicate) ==
  condition("ensure", description, predicate, FALSE, TRUE)

transform(transformer) ==
  [deco |-> "transform", kind |-> "transform", desc |-> "",
   field |-> transformer.field, bad |-> transformer.bad,
   precondition |-> FALSE, postcondition |-> FALSE]

\* lambda args: args.<field> != <bad>
PrePredicate(layer, rargs) ==
  IF layer.field \notin DOMAIN rargs THEN "AttributeError"
  ELSE IF rargs[layer.field] # layer.bad THEN "true" ELSE "false"

\* lambda args, result: result != args.<field>
PostPredicate(layer, rargs, res) ==
  IF layer.field \notin DOMAIN rargs THEN "AttributeError"
  ELSE IF res # rargs[layer.field] THEN "true" ELSE "false"

\* args._replace(**kwargs)
rewrite(args, kwargs) ==
  [k \in DOMAIN args |-> IF k \in DOMAIN kwargs THEN kwargs[k] ELSE args[k]]

\* lambda args: rewrite(args, <field>=MaxVal - args.<field>)
Transformer(layer, rargs) ==
  rewrite(rargs, [k \in {layer.field} |-> MaxVal - rargs[layer.field]])

(***************************************************************************)
(* The original callable's body: it records the values it runs with (its   *)
(* side effect) and returns their sum.                                     *)
(***************************************************************************)
BodyResult(locals) ==
  LET ps == shape.named \o shape.kwonly
  IN SumSeq([i \in 1..Len(ps) |-> locals[ps[i]]])
     + (IF shape.vargs # "" THEN SumSeq(locals[shape.vargs]) ELSE 0)

(***************************************************************************)
(* Outcomes and events.                                                    *)
(***************************************************************************)
Pending == [kind |-> "none", msg |-> "", by |-> "", param |-> "", value |-> <<>>]

Returned(v) ==
  [kind |-> "return", msg |-> "", by |-> "", param |-> "", value |-> <<v>>]

\* a violation raised with an empty message
ViolationNoMsg(description) ==
  [kind |-> "AssertionError", msg |-> "", by |-> "", param |-> "", value |-> <<>>]

\* assert <false>, description
Violation(description) ==
  [kind |-> "AssertionError", msg |-> description, by |-> "", param |-> "",
   value |-> <<>>]

Raised(exc, by, param) ==
  [kind |-> exc, msg |-> "", by |-> by, param |-> param, value |-> <<>>]

Event(ev, layer, val) == [ev |-> ev, layer |-> layer, val |-> val]

Frame(func, bind) ==
  [args |-> passed.args, kwargs |-> passed.kwargs, func |-> func, bind |-> bind]

(***************************************************************************)
(* Decoration: each decorator wraps the current outermost callable.        *)
(***************************************************************************)
Top == Len(layers)

\* inner.__contract_wrapped_func__ = wrapped, on top of what wraps(f) copied
ConditionAttr(at, f) == [has |-> TRUE, to |-> get_wrapped_func(at, f)]

\* transform's inner only has what wraps(f) copied from f.__dict__
TransformAttr(at, f) == IF f \in DOMAIN at THEN at[f] ELSE NoAttr

CallIdle ==
  /\ UNCHANGED <<shape, call, level, passed, frames, result, outcome, events,
                 effects, pc>>
  /\ UNCHANGED <<bvars, ivars, xvars>>

ApplyRequire ==
  /\ pc = "define"
  /\ Top < MaxLayers
  /\ \E c \in Preconditions :
       layers' = Append(layers, require(c.desc, c))
  /\ attr' = Append(attr, ConditionAttr(attr, Top))
  /\ CallIdle

ApplyEnsure ==
  /\ pc = "define"
  /\ Top < MaxLayers
  /\ \E c \in Postconditions :
       layers' = Append(layers, ensure(c.desc, c))
  /\ attr' = Append(attr, ConditionAttr(attr, Top))
  /\ CallIdle

ApplyTransform ==
  /\ pc = "define"
  /\ Top < MaxLayers
  /\ \E t \in Transformers :
       layers' = Append(layers, transform(t))
  /\ attr' = Append(attr, TransformAttr(attr, Top))
  /\ CallIdle

(***************************************************************************)
(* A call of the outermost callable.                                       *)
(***************************************************************************)
Invoke ==
  /\ pc = "define"
  /\ \E c \in Calls(shape) :
       /\ call' = c
       /\ passed' = c
  /\ level' = Top
  /\ pc' = "enter"
  /\ UNCHANGED <<shape, layers, attr, frames, result, outcome, events, effects>>
  /\ UNCHANGED <<bvars, ivars, xvars>>

\* an exception leaves the call: no layer catches anything
Raise(o) ==
  /\ outcome' = o
  /\ pc' = "done"
  /\ UNCHANGED <<level, passed, result>>

\* the call goes on into the next inner callable with the same arguments
Descend ==
  /\ level' = level - 1
  /\ UNCHANGED <<pc, passed, result, outcome>>

\* the value goes on out, to the next outer layer or to the caller
ReturnUp ==
  IF level = Top
  THEN /\ pc' = "done"
       /\ outcome' = Returned(result)
       /\ UNCHANGED <<level, passed, result>>
  ELSE /\ level' = level + 1
       /\ UNCHANGED <<pc, passed, result, outcome>>

\* the call goes on with the bound record expanded as keyword arguments
DescendRebound ==
  /\ level' = level - 1
  /\ passed' = [args |-> <<>>, kwargs |-> frames'[level].bind.rec]
  /\ UNCHANGED <<pc, result, outcome>>

\* f(*args, **kwargs): the layer hands on the arguments it received
CallNext == Descend

\* a precondition whose failure is ignored
AssertPreSkipped(v, layer) == CallNext

\* a precondition whose own error is reported as a violation
AssertPreTranslated(v, layer) ==
  IF v = "true" THEN CallNext ELSE Raise(Violation(layer.desc))

\* assert predicate(rargs), description; then the call of f
AssertPre(v, layer) ==
  IF v = "true" THEN CallNext
  ELSE IF v = "false" THEN Raise(Violation(layer.desc))
  ELSE Raise(Raised(v, "predicate", layer.field))

\* a postcondition whose failure is ignored
AssertPostSkipped(v, layer) == ReturnUp

\* assert predicate(rargs, result), description; then return result
AssertPost(v, layer) ==
  IF v = "true" THEN ReturnUp
  ELSE IF v = "false" THEN Raise(Violation(layer.desc))
  ELSE Raise(Raised(v, "predicate", layer.field))

\* condition.require.inner, up to the call of f.  The layers here are made by
\* require and ensure, which leave the instance flag False: rargs is always
\* the record build_call returns.
InnerEnter ==
  /\ pc = "enter"
  /\ level >= 1
  /\ layers[level].kind = "condition"
  /\ LET layer == layers[level]
         rargs == build_call(level - 1, passed.args, passed.kwargs)
         v     == PrePredicate(layer, rargs.rec)
     IN /\ frames' = (level :> Frame(get_wrapped_func(attr, level - 1), rargs)) @@ frames
        /\ IF rargs.exc # ""
           THEN /\ Raise(Raised(rargs.exc, rargs.by, rargs.param))
                /\ UNCHANGED events
           ELSE IF ~layer.precondition
           THEN /\ CallNext
                /\ UNCHANGED events
           ELSE /\ events' = Append(events, Event("pre", level, v))
                /\ AssertPre(v, layer)
  /\ UNCHANGED <<shape, layers, attr, call, effects>>
  /\ UNCHANGED <<bvars, ivars, xvars>>

\* condition.require.inner, from the return of f
InnerExit ==
  /\ pc = "exit"
  /\ layers[level].kind = "condition"
  /\ LET layer == layers[level]
         v     == PostPredicate(layer, frames[level].bind.rec, result)
     IN IF ~layer.postcondition
        THEN /\ ReturnUp
             /\ UNCHANGED events
        ELSE /\ events' = Append(events, Event("post", level, v))
             /\ AssertPost(v, layer)
  /\ UNCHANGED <<shape, layers, attr, call, frames, effects>>
  /\ UNCHANGED <<bvars, ivars, xvars>>

\* transform.func.inner, up to the call of f
TransformInner ==
  /\ pc = "enter"
  /\ level >= 1
  /\ layers[level].kind = "transform"
  /\ LET layer == layers[level]
         built == build_call(level - 1, passed.args, passed.kwargs)
     IN /\ frames' = (level :> Frame(get_wrapped_func(attr, level - 1), built)) @@ frames
        /\ IF built.exc # ""
           THEN /\ Raise(Raised(built.exc, built.by, built.param))
                /\ UNCHANGED events
           ELSE IF layer.field \notin DOMAIN built.rec
           THEN /\ Raise(Raised("AttributeError", "transformer", layer.field))
                /\ events' = Append(events, Event("rewrite", level, "AttributeError"))
           ELSE /\ events' = Append(events, Event("rewrite", level, "true"))
                /\ passed' = [args |-> <<>>, kwargs |-> Transformer(layer, built.rec)]
                /\ level' = level - 1
                /\ UNCHANGED <<pc, result, outcome>>
  /\ UNCHANGED <<shape, layers, attr, call, effects>>
  /\ UNCHANGED <<bvars, ivars, xvars>>

\* transform.func.inner returns what f returned
TransformReturn ==
  /\ pc = "exit"
  /\ layers[level].kind = "transform"
  /\ ReturnUp
  /\ UNCHANGED <<shape, layers, attr, call, frames, events, effects>>
  /\ UNCHANGED <<bvars, ivars, xvars>>

\* the innermost call reaches the original callable
Body ==
  /\ pc = "enter"
  /\ level = 0
  /\ LET b == PyBind(shape, passed.args, passed.kwargs)
     IN /\ frames' = (0 :> Frame(0, b)) @@ frames
        /\ IF b.exc # ""
           THEN /\ Raise(Raised(b.exc, b.by, b.param))
                /\ UNCHANGED <<events, effects>>
           ELSE /\ events' = Append(events, Event("body", 0, "true"))
                /\ effects' = Append(effects, b.rec)
                /\ result' = BodyResult(b.rec)
                /\ UNCHANGED passed
                /\ IF Top = 0
                   THEN /\ pc' = "done"
                        /\ outcome' = Returned(BodyResult(b.rec))
                        /\ UNCHANGED level
                   ELSE /\ pc' = "exit"
                        /\ level' = 1
                        /\ UNCHANGED outcome
  /\ UNCHANGED <<shape, layers, attr, call>>
  /\ UNCHANGED <<bvars, ivars, xvars>>

(***************************************************************************)
(* build_call applied to a call, and then to the same call written in      *)
(* another calling convention.                                             *)
(***************************************************************************)
\* two calls that give every parameter the same value
SameCall(x, d) ==
  LET y == PyBind(shape, d.args, d.kwargs)
  IN x.exc = "" /\ y.exc = "" /\ x.rec = y.rec

Bind ==
  /\ bpc = "start"
  /\ \E c \in Calls(shape) :
       /\ call1' = c
       /\ res1' = build_call_shape(shape, c.args, c.kwargs)
  /\ bpc' = "one"
  /\ UNCHANGED <<shape, cvars, call2, res2, ivars, xvars>>

BindOther ==
  /\ bpc = "one"
  /\ \E d \in Calls(shape) :
       /\ SameCall(PyBind(shape, call1.args, call1.kwargs), d)
       /\ call2' = d
       /\ res2' = build_call_shape(shape, d.args, d.kwargs)
  /\ bpc' = "two"
  /\ UNCHANGED <<shape, cvars, call1, res1, ivars, xvars>>

(***************************************************************************)
(* Class invariants.  The program under study is an account type: its      *)
(* instances have a balance, the type has a class attribute open, and its  *)
(* invariants read those.                                                  *)
(***************************************************************************)
\* the balances a program constructs an account with, or declares as the
\* class attribute of a type without an initializer
Initials == {100, -50}

\* the amounts a program passes to a method
Amounts == {50, 150}

\* (description, predicate) pairs a program passes to invariant
Invariants ==
  {[desc |-> "balance must be non-negative", pred |-> "nonneg"],
   [desc |-> "balance must be a multiple of 100", pred |-> "round"],
   [desc |-> "account must be open", pred |-> "open"]}

\* the source types: with an initializer of its own (def __init__(self,
\* initial)), or with the balance as a class attribute and object's
\* initializer
SourceTypes ==
  {[init |-> TRUE, balance |-> 100]}
    \cup {[init |-> FALSE, balance |-> b] : b \in Initials}

\* the methods the source type defines, with the initializer every type has
MethodNames ==
  {"__init__", "withdraw", "get", "adjust", "report", "risky", "close_all",
   "fee", "__add__", "__getitem__", "__repr__"}

\* what the body of each method does, one statement at a time
MethodBody(name) ==
  IF name = "__init__" THEN <<[op |-> "init", val |-> 0]>>
  ELSE IF name = "withdraw" THEN <<[op |-> "sub", val |-> 0]>>
  ELSE IF name = "get" THEN <<[op |-> "get", val |-> 0]>>
  ELSE IF name = "adjust"
  THEN <<[op |-> "set", val |-> -50], [op |-> "restore", val |-> 0]>>
  ELSE IF name = "report" THEN <<[op |-> "call", val |-> 1]>>
  ELSE IF name = "risky"
  THEN <<[op |-> "set", val |-> -50], [op |-> "call", val |-> 0],
         [op |-> "restore", val |-> 0]>>
  ELSE IF name = "close_all" THEN <<[op |-> "close", val |-> 0]>>
  ELSE IF name = "fee" THEN <<[op |-> "retarg", val |-> 0]>>
  ELSE IF name = "__add__" THEN <<[op |-> "add", val |-> 0]>>
  ELSE IF name = "__getitem__" THEN <<[op |-> "get", val |-> 0]>>
  ELSE IF name = "__repr__" THEN <<[op |-> "get", val |-> 0]>>
  ELSE <<[op |-> "set", val |-> -50]>>

\* the method a program attaches to the derived type from outside: it
\* leaves the balance negative
Attached == "late"

\* how many arguments a method takes besides the receiver
Arity(name) ==
  IF name \in {"__init__", "withdraw", "fee", "__add__", "__getitem__"}
  THEN 1 ELSE 0

\* the kind of each attribute of the source type found by dir: a function
\* defined in the class body, a classmethod, a staticmethod, or the slot
\* wrapper inherited from object
Members(src) ==
  [n \in MethodNames |->
     IF n = "__init__" THEN (IF src.init THEN "function" ELSE "slot")
     ELSE IF n = "close_all" THEN "classmethod"
     ELSE IF n = "fee" THEN "staticmethod"
     ELSE "function"]

\* name.startswith("__") and name.endswith("__")
IsDunder(name) ==
  name \in {"__init__", "__add__", "__getitem__", "__repr__"}

exceptions ==
  {"__getitem__", "__setitem__", "__lt__", "__le__", "__eq__", "__ne__",
   "__gt__", "__ge__", "__init__"}

\* check(name, getattr(c, name)): getattr gives a plain function for a
\* function and for a staticmethod, a method bound to c for a classmethod,
\* and a slot wrapper for what object defines
check(name, kind) ==
  IF IsDunder(name) /\ name \notin exceptions THEN FALSE
  ELSE IF kind \notin {"function", "staticmethod", "classmethod"} THEN FALSE
  ELSE IF kind = "classmethod" THEN FALSE
  ELSE TRUE

\* an invariant wrapper that never checks before the call
NoPrecondition(name) == FALSE

\* name != "__init__": the precondition flag of an invariant wrapper
InvariantPrecondition(name) == name # "__init__"

\* condition(desc, predicate, name != "__init__", True, True)
invariant_condition(inv, name, index) ==
  [desc |-> inv.desc, pred |-> inv.pred, inv |-> index,
   precondition |-> InvariantPrecondition(name), postcondition |-> TRUE,
   instance |-> TRUE]

\* the invariant decorator: every attribute that passes check is replaced, on
\* the derived type, by a wrapper around it
invariant(inv, tab, index) ==
  [n \in DOMAIN tab |->
     IF check(n, tab[n].kind)
     THEN [tab[n] EXCEPT !.wraps = Append(@, invariant_condition(inv, n, index))]
     ELSE tab[n]]

\* the source type itself, before any derivation
SourceTable(src) ==
  [n \in MethodNames |-> [kind |-> Members(src)[n], wraps |-> <<>>]]

\* the predicates, on the value the wrapper passes: args[0]
InvPredicate(pred, isinstance, o) ==
  IF ~isinstance THEN "AttributeError"
  ELSE IF pred = "nonneg" THEN (IF o.balance >= 0 THEN "true" ELSE "false")
  ELSE IF pred = "round" THEN (IF o.balance % 100 = 0 THEN "true" ELSE "false")
  ELSE (IF o.open THEN "true" ELSE "false")

\* an attached method wrapped like the methods of the class definition
AttachedWrapsAll(name) ==
  [i \in 1..Len(invs) |-> invariant_condition(invs[i], name, i)]

\* setattr from outside the class definition stores the function as it is
AttachedWraps(name) == <<>>

\* a nested call that goes to the source type's own method
NestedWrapsNone(name) == <<>>

\* self.<name>(...) inside a body looks the method up on the derived type
NestedWraps(name) == table[name].wraps

\* a failure that restores the instance to what it was when the call began
RolledBack(o, before) == before

\* a failed assert leaves the instance as the body left it
AfterFailure(o, before) == o

NoObj == [exists |-> FALSE, balance |-> 0, open |-> TRUE]

NoCur == [meth |-> "", recv |-> "", arg |-> <<>>]

NoPrev == [meth |-> "", recv |-> "", kind |-> "none"]

IEvent(ev, meth, depth, inv, val) ==
  [ev |-> ev, meth |-> meth, depth |-> depth, inv |-> inv, val |-> val]

\* a call of method name: args is what follows the receiver
NewFrame(name, recv, arg, wraps) ==
  [meth |-> name, recv |-> recv, arg |-> arg, wraps |-> wraps,
   lvl |-> Len(wraps), phase |-> "enter", ip |-> 1, saved |-> 0, ret |-> 0]

(***************************************************************************)
(* Deriving a type, constructing its instance and calling its methods.     *)
(***************************************************************************)
Depth == Len(stack)

TopFrame == stack[Depth]

IdleChain == UNCHANGED <<shape, cvars, bvars, xvars>>

\* @invariant(desc, predicate) applied to the type derived so far; a program
\* declares each invariant once
DeclareInvariant ==
  /\ ipc = "derive"
  /\ Len(invs) < MaxInvariants
  /\ \E inv \in Invariants \ Range(invs) :
       /\ invs' = Append(invs, inv)
       /\ table' = invariant(inv, table, Len(invs) + 1)
  /\ UNCHANGED <<source, ipc, obj, stack, iresult, ievents, ioutcome, start,
                 cur, prev, ncalls>>
  /\ IdleChain

\* the program calls name, looked up on the derived type
Begin(name, recv, arg) ==
  /\ ncalls < MaxCalls
  /\ ncalls' = ncalls + 1
  /\ prev' = [meth |-> cur.meth, recv |-> cur.recv, kind |-> ioutcome.kind]
  /\ cur' = [meth |-> name, recv |-> recv, arg |-> arg]
  /\ stack' = <<NewFrame(name, recv, arg, table[name].wraps)>>
  /\ ievents' = <<>>
  /\ ioutcome' = Pending
  /\ iresult' = 0
  /\ ipc' = "run"

\* Type(initial): a new instance, which sees the class attributes, is passed
\* to __init__
Construct ==
  /\ ipc \in {"derive", "idle"}
  /\ ~obj.exists
  /\ \E v \in Initials :
       Begin("__init__", "instance", IF source.init THEN <<v>> ELSE <<>>)
  /\ obj' = [exists |-> FALSE, balance |-> source.balance, open |-> obj.open]
  /\ start' = obj'
  /\ UNCHANGED <<source, invs, table>>
  /\ IdleChain

\* instance.name(...) or, for a classmethod or staticmethod, Type.name(...)
CallMethod ==
  /\ ipc = "idle"
  /\ \E name \in DOMAIN table \ {"__init__"}, recv \in {"instance", "type"} :
       /\ recv = "instance" => obj.exists
       /\ recv = "type" => table[name].kind \in {"classmethod", "staticmethod"}
       /\ \E arg \in (IF Arity(name) = 1 THEN {<<v>> : v \in Amounts} ELSE {<<>>}) :
            Begin(name, recv, arg)
  /\ start' = obj
  /\ UNCHANGED <<source, invs, table, obj>>
  /\ IdleChain

\* Type.late = late, after the type was derived
AttachMethod ==
  /\ ipc = "idle"
  /\ Attached \notin DOMAIN table
  /\ table' = table @@
       (Attached :> [kind |-> "function", wraps |-> AttachedWraps(Attached)])
  /\ UNCHANGED <<source, invs, ipc, obj, stack, iresult, ievents, ioutcome,
                 start, cur, prev, ncalls>>
  /\ IdleChain

\* an exception leaves the call of the program: nothing catches it
IRaise(o) ==
  /\ stack' = <<>>
  /\ ipc' = "idle"
  /\ ioutcome' = o
  /\ obj' = AfterFailure(obj, start)
  /\ UNCHANGED iresult

\* the outermost wrapper of a method call returns v to its caller
IReturn(v) ==
  /\ iresult' = v
  /\ IF Depth = 1
     THEN /\ stack' = <<>>
          /\ ipc' = "idle"
          /\ ioutcome' = Returned(v)
          /\ obj' = IF cur.meth = "__init__"
                    THEN [obj EXCEPT !.exists = TRUE] ELSE obj
     ELSE /\ stack' = SubSeq(stack, 1, Depth - 1)
          /\ UNCHANGED <<ipc, ioutcome, obj>>

\* condition.require.inner with instance=True, up to the call of f:
\* rargs = args[0], the precondition, then f(*args, **kwargs)
InvariantEnter ==
  /\ ipc = "run"
  /\ TopFrame.phase = "enter"
  /\ TopFrame.lvl >= 1
  /\ LET fr     == TopFrame
         layer  == fr.wraps[fr.lvl]
         isinst == fr.recv = "instance"
         v      == InvPredicate(layer.pred, isinst, obj)
         down   == [stack EXCEPT ![Depth].lvl = fr.lvl - 1]
     IN IF ~isinst /\ fr.arg = <<>>
        THEN /\ IRaise(Raised("IndexError", "inner", ""))
             /\ UNCHANGED ievents
        ELSE IF ~layer.precondition
        THEN /\ stack' = down
             /\ UNCHANGED <<ievents, ipc, ioutcome, obj, iresult>>
        ELSE /\ ievents' = Append(ievents,
                             IEvent("pre", fr.meth, Depth, layer.inv, v))
             /\ IF v = "true"
                THEN /\ stack' = down
                     /\ UNCHANGED <<ipc, ioutcome, obj, iresult>>
                ELSE IF v = "false" THEN IRaise(Violation(layer.desc))
                ELSE IRaise(Raised(v, "predicate", layer.pred))
  /\ UNCHANGED <<source, invs, table, start, cur, prev, ncalls>>
  /\ IdleChain

\* condition.require.inner with instance=True, from the return of f:
\* assert predicate(rargs), description; return result
InvariantExit ==
  /\ ipc = "run"
  /\ TopFrame.phase = "exit"
  /\ LET fr     == TopFrame
         layer  == fr.wraps[fr.lvl]
         v      == InvPredicate(layer.pred, fr.recv = "instance", obj)
     IN /\ ievents' = Append(ievents,
                        IEvent("post", fr.meth, Depth, layer.inv, v))
        /\ IF v = "true"
           THEN IF fr.lvl = Len(fr.wraps)
                THEN IReturn(iresult)
                ELSE /\ stack' = [stack EXCEPT ![Depth].lvl = fr.lvl + 1]
                     /\ UNCHANGED <<ipc, ioutcome, obj, iresult>>
           ELSE IF v = "false" THEN IRaise(Violation(layer.desc))
           ELSE IRaise(Raised(v, "predicate", layer.pred))
  /\ UNCHANGED <<source, invs, table, start, cur, prev, ncalls>>
  /\ IdleChain

\* a staticmethod that was wrapped is a plain function on the derived type:
\* called on an instance it is handed the instance as an extra argument
TooManyArgs(fr) ==
  /\ table[fr.meth].kind = "staticmethod"
  /\ fr.wraps # <<>>
  /\ fr.recv = "instance"

\* the value a body returns: the nested call's result when its last
\* statement returns it, else what the body computed (None is 0)
BodyValue(fr, body) ==
  IF body # <<>> /\ body[Len(body)].op = "call" /\ body[Len(body)].val = 1
  THEN iresult ELSE fr.ret

\* the source type's own method: one statement of its body per step
RunBody ==
  /\ ipc = "run"
  /\ TopFrame.phase = "enter"
  /\ TopFrame.lvl = 0
  /\ LET fr    == TopFrame
         body  == IF table[fr.meth].kind = "slot" THEN <<>> ELSE MethodBody(fr.meth)
         op    == body[fr.ip]
         step  == [stack EXCEPT ![Depth].ip = fr.ip + 1]
         bal   == IF op.op = "init" THEN fr.arg[1]
                  ELSE IF op.op = "sub" THEN obj.balance - fr.arg[1]
                  ELSE IF op.op = "set" THEN op.val
                  ELSE IF op.op = "restore" THEN fr.saved
                  ELSE obj.balance
         ret   == IF op.op = "get" THEN obj.balance
                  ELSE IF op.op = "retarg" THEN fr.arg[1]
                  ELSE IF op.op = "add" THEN obj.balance + fr.arg[1]
                  ELSE fr.ret
         local == [step EXCEPT ![Depth].saved =
                                  IF op.op = "set" THEN obj.balance ELSE fr.saved,
                                ![Depth].ret = ret]
     IN IF TooManyArgs(fr)
        THEN /\ IRaise(Raised("TypeError", "python", fr.meth))
             /\ UNCHANGED ievents
        ELSE IF fr.ip > Len(body)
        THEN /\ UNCHANGED ievents
             /\ IF fr.wraps = <<>>
                THEN IReturn(BodyValue(fr, body))
                ELSE /\ stack' = [stack EXCEPT ![Depth].phase = "exit",
                                               ![Depth].lvl = 1]
                     /\ iresult' = BodyValue(fr, body)
                     /\ UNCHANGED <<ipc, ioutcome, obj>>
        ELSE /\ ievents' = IF fr.ip = 1
                           THEN Append(ievents, IEvent("body", fr.meth, Depth, 0, "true"))
                           ELSE ievents
             /\ obj' = [obj EXCEPT !.balance = bal,
                                   !.open = IF op.op = "close" THEN FALSE ELSE @]
             /\ stack' = IF op.op = "call"
                         THEN Append(local, NewFrame("get", "instance", <<>>,
                                                     NestedWraps("get")))
                         ELSE local
             /\ UNCHANGED <<ipc, ioutcome, iresult>>
  /\ UNCHANGED <<source, invs, table, start, cur, prev, ncalls>>
  /\ IdleChain

\* enforcement enabled, one declaration applied at once, one invocation at a
\* time, only the latest derived type in use
NoDecl ==
  [deco |-> "", desc |-> [text |-> TRUE, value |-> ""],
   pred |-> [isfunction |-> TRUE, arity |-> 1],
   stage |-> "none", error |-> "", at |-> ""]

NoExtra ==
  /\ declared = <<>>
  /\ decl = NoDecl
  /\ th = <<>>
  /\ types = <<>>

(***************************************************************************)
(* Specifications.                                                         *)
(***************************************************************************)
ChainShapes == {ShapeVar, ShapeKwo}

BindShapes == {ShapeAB, ShapeVar, ShapeDef, ShapeKwo}

InitChain ==
  /\ layers = <<>>
  /\ attr = <<>>
  /\ pc = "define"
  /\ call = NoCall
  /\ level = 0
  /\ passed = NoCall
  /\ frames = <<>>
  /\ result = 0
  /\ outcome = Pending
  /\ events = <<>>
  /\ effects = <<>>

InitBinder ==
  /\ bpc = "start"
  /\ call1 = NoCall
  /\ res1 = Bound(<<>>)
  /\ call2 = NoCall
  /\ res2 = Bound(<<>>)

\* no instance, before any derivation
InitType ==
  /\ invs = <<>>
  /\ table = SourceTable(source)
  /\ ipc = "derive"
  /\ obj = NoObj
  /\ stack = <<>>
  /\ iresult = 0
  /\ ievents = <<>>
  /\ ioutcome = Pending
  /\ start = NoObj
  /\ cur = NoCur
  /\ prev = NoPrev
  /\ ncalls = 0

NoType ==
  /\ source = [init |-> TRUE, balance |-> 100]
  /\ InitType

Init ==
  /\ shape \in ChainShapes
  /\ InitChain
  /\ InitBinder
  /\ NoType
  /\ NoExtra

Next ==
  \/ ApplyRequire
  \/ ApplyEnsure
  \/ ApplyTransform
  \/ Invoke
  \/ InnerEnter
  \/ TransformInner
  \/ Body
  \/ InnerExit
  \/ TransformReturn

Spec == Init /\ [][Next]_vars

InitBind ==
  /\ shape \in BindShapes
  /\ InitChain
  /\ InitBinder
  /\ NoType
  /\ NoExtra

NextBind == Bind \/ BindOther

SpecBind == InitBind /\ [][NextBind]_vars

InitInv ==
  /\ shape = ShapeAB
  /\ InitChain
  /\ InitBinder
  /\ source \in SourceTypes
  /\ InitType
  /\ NoExtra

NextInv ==
  \/ DeclareInvariant
  \/ Construct
  \/ CallMethod
  \/ AttachMethod
  \/ InvariantEnter
  \/ RunBody
  \/ InvariantExit

SpecInv == InitInv /\ [][NextInv]_vars

(***************************************************************************)
(* Vocabulary of the properties.                                           *)
(***************************************************************************)
\* the layers counted from the outermost inward, and from the innermost outward
Inward == [j \in 1..Top |-> Top - j + 1]

Outward == [j \in 1..Top |-> j]

Entered(i) == i \in DOMAIN frames

\* layer i was entered and bound a record
BoundAt(i) == Entered(i) /\ frames[i].bind.exc = ""

\* the predicate of a require layer on a record
PreHolds(i, rec) ==
  layers[i].field \in DOMAIN rec /\ rec[layers[i].field] # layers[i].bad

PreFails(i, rec) ==
  layers[i].field \in DOMAIN rec /\ rec[layers[i].field] = layers[i].bad

\* the predicate of an ensure layer on a record and a result
PostHolds(i, rec, res) ==
  layers[i].field \in DOMAIN rec /\ res # rec[layers[i].field]

PostFails(i, rec, res) ==
  layers[i].field \in DOMAIN rec /\ res = rec[layers[i].field]

Evaluated(ev, i) == \E n \in 1..Len(events) : events[n].ev = ev /\ events[n].layer = i

BodyRuns == Cardinality({n \in 1..Len(events) : events[n].ev = "body"})

Finished == pc = "done"

OnlyConditions == \A i \in 1..Top : layers[i].deco \in {"require", "ensure"}

AllRequire == Top >= 1 /\ \A i \in 1..Top : layers[i].deco = "require"

\* what the undecorated callable does with the caller's arguments
Plain == PyBind(shape, call.args, call.kwargs)

\* the call is one the undecorated callable accepts, and every declared
\* condition holds of its values and of the body's result on them
AllHold ==
  /\ Plain.exc = ""
  /\ \A i \in 1..Top :
       /\ layers[i].deco = "require" => PreHolds(i, Plain.rec)
       /\ layers[i].deco = "ensure" => PostHolds(i, Plain.rec, BodyResult(Plain.rec))

(***************************************************************************)
(* Properties of the condition wrapper (specification Spec).               *)
(***************************************************************************)
PreFalseAt(i) ==
  /\ layers[i].deco = "require"
  /\ BoundAt(i)
  /\ PreFails(i, frames[i].bind.rec)

\* C1: when a require layer binds a record on which its predicate is false,
\* the call fails with an AssertionError whose message is exactly that
\* layer's description, nothing is returned, and the original callable is
\* never entered: its body does not run and leaves no side effect.
C1_PreconditionFailure ==
  \A i \in 1..Top :
    PreFalseAt(i) =>
      /\ Finished
      /\ outcome.kind = "AssertionError"
      /\ outcome.msg = layers[i].desc
      /\ outcome.value = <<>>
      /\ ~Entered(0)
      /\ BodyRuns = 0
      /\ effects = <<>>

C1_Witness ==
  /\ Finished
  /\ Top >= 2
  /\ \E i \in 1..Top : PreFalseAt(i) /\ i < Top

\* the call's record violates exactly the k-th precondition, outermost first
ViolatesExactly(k) ==
  /\ BoundAt(Top)
  /\ PreFails(Inward[k], frames[Top].bind.rec)
  /\ \A j \in (1..Top) \ {k} : PreHolds(Inward[j], frames[Top].bind.rec)

\* C2: with N >= 1 stacked preconditions and a call that violates exactly
\* the k-th one counted from the outermost, the call fails with the k-th
\* description, and the predicates evaluated are exactly those of
\* preconditions 1..k, in that order: 1..k-1 true, the k-th false, and none
\* of k+1..N.
C2_KthPreconditionFails ==
  \A k \in 1..Top :
    (Finished /\ AllRequire /\ ViolatesExactly(k)) =>
      /\ outcome.kind = "AssertionError"
      /\ outcome.msg = layers[Inward[k]].desc
      /\ events = [j \in 1..k |->
                     Event("pre", Inward[j], IF j = k THEN "false" ELSE "true")]

C2_Witness ==
  /\ Finished
  /\ AllRequire
  /\ Top = 2
  /\ ViolatesExactly(2)
  /\ Len(events) = 2

\* the events of an onion: preconditions from the outermost layer inward,
\* the body, postconditions from the innermost layer outward
OnionEvents ==
  LET IsRequire(i) == layers[i].deco = "require"
      IsEnsure(i)  == layers[i].deco = "ensure"
      pres  == SelectSeq(Inward, IsRequire)
      posts == SelectSeq(Outward, IsEnsure)
  IN [j \in 1..Len(pres) |-> Event("pre", pres[j], "true")]
     \o <<Event("body", 0, "true")>>
     \o [j \in 1..Len(posts) |-> Event("post", posts[j], "true")]

\* C3: for a chain of require and ensure layers in any mix and order, a
\* call in which every condition holds evaluates all preconditions from the
\* outermost layer inward, then runs the body, then evaluates all
\* postconditions from the innermost layer outward.
C3_OnionOrder ==
  (Finished /\ Top >= 1 /\ OnlyConditions /\ AllHold) => events = OnionEvents

C3_Witness ==
  /\ Finished
  /\ Top = 2
  /\ AllHold
  /\ layers[2].deco = "ensure"
  /\ layers[1].deco = "require"
  /\ events = <<Event("pre", 1, "true"), Event("body", 0, "true"),
                Event("post", 2, "true")>>

PostFalseAt(i) ==
  /\ layers[i].deco = "ensure"
  /\ BoundAt(i)
  /\ Evaluated("post", i)
  /\ PostFails(i, frames[i].bind.rec, result)

\* C4: when the body has completed and an ensure layer's predicate is false
\* on its record and the result, the call fails with that layer's
\* description, no value is returned, and the body's side effect stays.
C4_PostconditionFailure ==
  \A i \in 1..Top :
    PostFalseAt(i) =>
      /\ Finished
      /\ outcome.kind = "AssertionError"
      /\ outcome.msg = layers[i].desc
      /\ outcome.value = <<>>
      /\ BodyRuns = 1
      /\ BoundAt(0)
      /\ effects = <<frames[0].bind.rec>>

C4_Witness ==
  /\ Finished
  /\ Top >= 2
  /\ \E i \in 1..Top : PostFalseAt(i) /\ i < Top
  /\ Len(effects) = 1

\* C5: for a chain of require and ensure layers and a call in which every
\* condition holds, the body runs exactly once, receives the caller's own
\* positional and keyword arguments, and the caller gets the body's result.
C5_TransparentWhenAllHold ==
  (Finished /\ OnlyConditions /\ AllHold) =>
    /\ outcome.kind = "return"
    /\ outcome.value = <<BodyResult(Plain.rec)>>
    /\ BodyRuns = 1
    /\ BoundAt(0)
    /\ frames[0].args = call.args
    /\ frames[0].kwargs = call.kwargs
    /\ effects = <<Plain.rec>>

C5_Witness ==
  /\ Finished
  /\ Top = 2
  /\ OnlyConditions
  /\ AllHold
  /\ call.args # <<>>
  /\ DOMAIN call.kwargs # {}
  /\ outcome.kind = "return"

(***************************************************************************)
(* Properties of the binder (specification SpecBind).                      *)
(***************************************************************************)
\* C6: two call forms that give every parameter the same effective value
\* are bound to the same record (same names, same values); in particular
\* (a, b, c=default) called as (1, 1), (1, 1, default) and (a=1, b=1).
C6_ConventionInvariant ==
  bpc = "two" => /\ res1.exc = ""
                 /\ res2.exc = ""
                 /\ res1.rec = res2.rec

C6_Witness ==
  /\ bpc = "two"
  /\ shape = ShapeDef
  /\ call1 = [args |-> <<1, 1>>, kwargs |-> NoKw]
  /\ call2 = [args |-> <<>>, kwargs |-> [k \in {"a", "b"} |-> 1]]
  /\ res2.rec = [k \in {"a", "b", "c"} |-> IF k = "c" THEN 0 ELSE 1]

\* the call leaves a required parameter without a value
MissingRequired == Unsupplied(shape, call.args, call.kwargs) # {}

\* C7: a call of a wrapped callable that leaves a required parameter
\* without a value fails with build_call's TypeError, before any predicate
\* or rewriter is evaluated and without entering the original callable.
C7_MissingArgument ==
  (Finished /\ Top >= 1 /\ MissingRequired) =>
    /\ outcome.kind = "TypeError"
    /\ outcome.by = "build_call"
    /\ events = <<>>
    /\ ~Entered(0)

\* C8: build_call never returns a partial record: when a declared parameter
\* (positional-or-keyword or keyword-only) has no value the binding fails,
\* so a record it returns has an entry for every declared parameter.
C8_NoPartialRecord ==
  bpc # "start" =>
    /\ Unsupplied(shape, call1.args, call1.kwargs) # {} => res1.exc # ""
    /\ res1.exc = "" => Params(shape) \subseteq DOMAIN res1.rec

\* C9: a call that gives a parameter both positionally and by keyword makes
\* the binder fail: no layer binds a record for it and no predicate is
\* evaluated.
C9_CollisionFailsLoudly ==
  (Finished /\ Top >= 1 /\ Collisions(shape, call.args, call.kwargs) # {}) =>
    /\ \A i \in 1..Top : ~BoundAt(i)
    /\ \A n \in 1..Len(events) : events[n].ev \notin {"pre", "post"}

\* C10: every layer of a stack of require, ensure and transform layers binds
\* its record against the original callable's shape, never a wrapper's.
C10_BindsOriginalShape ==
  \A i \in 1..Top : Entered(i) => frames[i].func = 0

(***************************************************************************)
(* Properties of the transform layer (specification Spec).                 *)
(***************************************************************************)
\* transform layer t bound a record and its rewriter returned a record
Rewrote(t) ==
  /\ layers[t].kind = "transform"
  /\ BoundAt(t)
  /\ layers[t].field \in DOMAIN frames[t].bind.rec

\* the record the rewriter of transform layer t returned
RewrittenAt(t) == Transformer(layers[t], frames[t].bind.rec)

\* the callables inside transform layer t up to the next transform
InsideOf(t) ==
  {i \in 0..(t - 1) : \A j \in (i + 1)..(t - 1) : layers[j].kind # "transform"}

\* C11: for a call the original accepts, through a transform layer that
\* bound the original's shape and whose rewriter returned r', everything
\* entered inside the transform binds exactly the values of r', and with the
\* transform as the only layer the original is invoked on r' and the call
\* returns the original's result on r'; for every shape, a variadic
\* positional tail included.
C11_TransformInvokesRewritten ==
  \A t \in 1..Top :
    (Finished /\ Rewrote(t) /\ Plain.exc = "" /\ frames[t].func = 0) =>
      /\ \A i \in InsideOf(t) :
           Entered(i) => (BoundAt(i) /\ frames[i].bind.rec = RewrittenAt(t))
      /\ Top = 1 =>
           /\ Entered(0)
           /\ outcome = Returned(BodyResult(RewrittenAt(t)))

HasTransform == \E i \in 1..Top : layers[i].kind = "transform"

\* C12: in a chain that contains a transform layer, every evaluation of a
\* precondition comes after a rewrite: no precondition is evaluated before
\* the record was rewritten.
C12_RewriteBeforePreconditions ==
  HasTransform =>
    \A n \in 1..Len(events) :
      events[n].ev = "pre" => \E m \in 1..(n - 1) : events[m].ev = "rewrite"

(***************************************************************************)
(* Properties of invariant (specification SpecInv).                        *)
(***************************************************************************)
\* the number of invariants declared on the type
NInv == Len(invs)

\* a call of the program has ended
IFinished == ipc = "idle" /\ cur.meth # ""

\* every declared invariant is true of the attributes o
HoldsAll(o) == \A i \in 1..NInv : InvPredicate(invs[i].pred, TRUE, o) = "true"

\* the instance methods with ordinary names
OrdinaryMethods == {"withdraw", "get", "adjust", "report", "risky"}

OrdinaryCall == cur.meth \in OrdinaryMethods /\ cur.recv = "instance"

\* the events of the call at nesting depth d
EventsAt(d) == LET AtDepth(e) == e.depth = d IN SelectSeq(ievents, AtDepth)

\* the invariants (by index) evaluated before, and after, the body of the
\* call at depth d, in the order of their evaluation
PreSeq(d) ==
  LET IsPre(e) == e.depth = d /\ e.ev = "pre"
      s == SelectSeq(ievents, IsPre)
  IN [j \in 1..Len(s) |-> s[j].inv]

PostSeq(d) ==
  LET IsPost(e) == e.depth = d /\ e.ev = "post"
      s == SelectSeq(ievents, IsPost)
  IN [j \in 1..Len(s) |-> s[j].inv]

NoChecks == \A n \in 1..Len(ievents) : ievents[n].ev \notin {"pre", "post"}

BodyRan(d) == \E n \in 1..Len(ievents) : ievents[n].ev = "body" /\ ievents[n].depth = d

\* the descriptions of the invariants that are false of o
FalseDescs(o) ==
  {invs[i].desc : i \in {j \in 1..NInv : InvPredicate(invs[j].pred, TRUE, o) = "false"}}

\* at depth d every invariant was evaluated before the body ran
CheckedBefore(d) ==
  LET e == EventsAt(d)
  IN /\ Len(e) >= NInv + 1
     /\ \A j \in 1..NInv : e[j].ev = "pre" /\ e[j].val = "true"
     /\ {e[j].inv : j \in 1..NInv} = 1..NInv
     /\ e[NInv + 1].ev = "body"

\* at depth d every invariant was evaluated again after the body returned
CheckedAfter(d) ==
  LET e == EventsAt(d)
  IN /\ Len(e) = 2 * NInv + 1
     /\ \A j \in (NInv + 2)..(2 * NInv + 1) : e[j].ev = "post" /\ e[j].val = "true"
     /\ {e[j].inv : j \in (NInv + 2)..(2 * NInv + 1)} = 1..NInv

\* C13: a call of an ordinary instance method of the derived type, on an
\* instance that satisfies the invariants, evaluates every invariant before
\* the body and, when the call returns, again after it; on an instance that
\* violates an invariant the call fails with the description of a violated
\* invariant and the body does not run; and a body that breaks an invariant
\* and restores it before returning, calling no other method, does not fail.
C13_CheckedBeforeAndAfter ==
  (IFinished /\ OrdinaryCall) =>
    /\ HoldsAll(start) => CheckedBefore(1)
    /\ (HoldsAll(start) /\ ioutcome.kind = "return") => CheckedAfter(1)
    /\ ~HoldsAll(start) =>
         /\ ioutcome.kind = "AssertionError"
         /\ ioutcome.msg \in FalseDescs(start)
         /\ ~BodyRan(1)
         /\ obj = start
    /\ (HoldsAll(start) /\ cur.meth = "adjust") =>
         /\ ioutcome.kind = "return"
         /\ obj = start

C13_Witness ==
  /\ IFinished
  /\ NInv = 2
  /\ cur.meth = "adjust"
  /\ HoldsAll(start)
  /\ ioutcome.kind = "return"
  /\ Len(ievents) = 5

\* C14: constructing an instance, whether or not the source type declares
\* its own initializer, goes through a wrapped initializer: no invariant is
\* evaluated before its body, every invariant is evaluated after it, and an
\* instance that construction hands back satisfies every invariant.
C14_ConstructorEstablishes ==
  (IFinished /\ cur.meth = "__init__") =>
    /\ Len(table["__init__"].wraps) = NInv
    /\ PreSeq(1) = <<>>
    /\ ioutcome.kind = "return" =>
         /\ {PostSeq(1)[j] : j \in 1..Len(PostSeq(1))} = 1..NInv
         /\ HoldsAll(obj)
    /\ ioutcome.kind = "AssertionError" => ioutcome.msg \in FalseDescs(obj)

\* the invariants as the stacked decorators read from the top down, and
\* from the bottom up
TopDown == [j \in 1..NInv |-> NInv - j + 1]

BottomUp == [j \in 1..NInv |-> j]

IsPrefix(s, t) == Len(s) <= Len(t) /\ \A j \in 1..Len(s) : s[j] = t[j]

\* C15: there is one order I1..In of the declared invariants (the stacked
\* decorators read from the top down, or from the bottom up) in which they
\* are evaluated both before and after the body of an ordinary method: at
\* each boundary the invariants evaluated are I1, I2, ... up to the first
\* false one.
C15_DeclarationOrderAtBothBoundaries ==
  (IFinished /\ OrdinaryCall /\ NInv >= 2) =>
    \E ord \in {TopDown, BottomUp} :
      /\ IsPrefix(PreSeq(1), ord)
      /\ IsPrefix(PostSeq(1), ord)

\* what a type-level method of the source type returns (None is 0)
TypeLevelResult == IF cur.meth = "fee" THEN cur.arg[1] ELSE 0

\* C16: a call of a classmethod or staticmethod of the source type, on the
\* derived type or on an instance (here one that satisfies the invariants),
\* evaluates no invariant, runs the method with the caller's arguments and
\* returns the method's result.
C16_TypeLevelNeverWrapped ==
  (IFinished /\ cur.meth \in {"close_all", "fee"} /\ HoldsAll(start)) =>
    /\ table[cur.meth].wraps = <<>>
    /\ NoChecks
    /\ BodyRan(1)
    /\ ioutcome = Returned(TypeLevelResult)

\* methods implementing arithmetic, comparison and container emulation
OperatorMethods == {"__add__", "__getitem__"}

\* the other methods whose names begin with two underscores
PrivateMethods == {"__repr__"}

\* C17: on an instance that satisfies the invariants, a call of a method
\* implementing an arithmetic, comparison or container operation evaluates
\* every invariant before and after the body, and a call of any other
\* method whose name begins with two underscores (the initializer apart)
\* evaluates none.
C17_DunderExemptions ==
  (IFinished /\ cur.recv = "instance" /\ HoldsAll(start)) =>
    /\ cur.meth \in OperatorMethods => (CheckedBefore(1) /\ CheckedAfter(1))
    /\ cur.meth \in PrivateMethods => NoChecks

\* C18: a call of a method attached to the derived type after derivation
\* evaluates no invariant and returns, even though it leaves the instance
\* violating an invariant; the violation is reported at the first boundary
\* of the next call of a wrapped method, before that method's body.
C18_AttachedNeverWrapped ==
  /\ (IFinished /\ cur.meth = Attached) =>
       /\ NoChecks
       /\ BodyRan(1)
       /\ ioutcome.kind = "return"
       /\ obj.balance < 0
  /\ (IFinished /\ prev.meth = Attached /\ OrdinaryCall /\ ~HoldsAll(start)) =>
       /\ prev.kind = "return"
       /\ ioutcome.kind = "AssertionError"
       /\ ioutcome.msg \in FalseDescs(start)
       /\ ~BodyRan(1)
       /\ PostSeq(1) = <<>>

C18_Witness ==
  /\ IFinished
  /\ prev.meth = Attached
  /\ cur.meth = "get"
  /\ NInv = 2
  /\ ~HoldsAll(start)
  /\ ioutcome.kind = "AssertionError"

\* the instance as risky's body leaves it when it calls get
Broken(o) == [o EXCEPT !.balance = -50]

\* C19: when the body of a wrapped method calls a wrapped method on the
\* same instance, every invariant is evaluated again at the nested entry
\* and at the nested exit, on the instance as it then is: report, whose body
\* calls get on a valid instance, evaluates every invariant four times; and
\* risky, whose body calls get while an invariant is false, fails at the
\* nested entry check with a violated invariant's description, before get's
\* body and with no check after any body.
C19_NestedBoundaries ==
  /\ (IFinished /\ cur.recv = "instance" /\ cur.meth = "report" /\ HoldsAll(start)) =>
       /\ ioutcome = Returned(start.balance)
       /\ CheckedBefore(1) /\ CheckedAfter(1)
       /\ CheckedBefore(2) /\ CheckedAfter(2)
       /\ Len(ievents) = 4 * NInv + 2
  /\ (IFinished /\ cur.recv = "instance" /\ cur.meth = "risky"
        /\ HoldsAll(start) /\ ~HoldsAll(Broken(start))) =>
       /\ ioutcome.kind = "AssertionError"
       /\ ioutcome.msg \in FalseDescs(Broken(start))
       /\ PreSeq(2) # <<>>
       /\ ievents[Len(ievents)].ev = "pre"
       /\ ievents[Len(ievents)].depth = 2
       /\ ievents[Len(ievents)].val = "false"
       /\ ~BodyRan(2)
       /\ PostSeq(1) = <<>> /\ PostSeq(2) = <<>>

C19_Witness ==
  /\ IFinished
  /\ cur.meth = "risky"
  /\ NInv = 2
  /\ HoldsAll(start)
  /\ ioutcome.kind = "AssertionError"
  /\ Len(PreSeq(1)) = 2
  /\ Len(PreSeq(2)) >= 1

\* the declared invariants are the non-negative balance and at most others
\* that a balance of -50 satisfies
NonNegativeType ==
  /\ \E i \in 1..NInv : invs[i].pred = "nonneg"
  /\ \A i \in 1..NInv : invs[i].pred \in {"nonneg", "open"}

\* C20: on a type with the invariant "balance must be non-negative",
\* withdraw(150) on an instance with balance 100 fails with an
\* AssertionError whose message is exactly that description, and the
\* instance's balance is -50 afterwards: the failed check after the body
\* does not undo the body's mutation.
C20_NoRollback ==
  (IFinished /\ NonNegativeType /\ cur.meth = "withdraw" /\ cur.arg = <<150>>
     /\ start.balance = 100 /\ start.open) =>
    /\ ioutcome = Violation("balance must be non-negative")
    /\ BodyRan(1)
    /\ obj.balance = -50

C20_Witness ==
  /\ IFinished
  /\ NonNegativeType
  /\ cur.meth = "withdraw"
  /\ cur.arg = <<150>>
  /\ start.balance = 100
  /\ obj.balance = -50
  /\ ioutcome.kind = "AssertionError"

(***************************************************************************)
(* Enforcement disabled: under python -O the module rebinds require,       *)
(* ensure, invariant and transform to decorators that return their input.  *)
(* A program is then a function program (declarations on the callable,     *)
(* then a call) or a type program (declarations on the type, then          *)
(* construction and method calls).                                         *)
(***************************************************************************)
\* def require(description, predicate): def func(f): return f
require_off(description, predicate, f) == f

\* def ensure(description, predicate): def func(f): return f
ensure_off(description, predicate, f) == f

\* def transform(transformer): def func(c): return c
transform_off(transformer, f) == f

\* an invariant decorator that still derives a wrapping type
invariant_enforcing(inv, tab, index) == invariant(inv, tab, index)

\* def invariant(description, predicate): def func(c): return c
invariant_off(inv, tab, index) == tab

\* the callable a function program has built so far
Callable == [layers |-> layers, attr |-> attr]

Declaration(deco, c) == [deco |-> deco, desc |-> c.desc]

FunctionProgram == shape \in ChainShapes

TypeProgram == shape \notin ChainShapes

\* a declaration on the callable returned g
DeclaredOff(deco, c, g) ==
  /\ declared' = Append(declared, Declaration(deco, c))
  /\ layers' = g.layers
  /\ attr' = g.attr
  /\ UNCHANGED <<shape, pc, call, level, passed, frames, result, outcome,
                 events, effects>>
  /\ UNCHANGED <<bvars, ivars, decl, th, types>>

RequireOff ==
  /\ FunctionProgram
  /\ pc = "define"
  /\ Len(declared) < MaxLayers
  /\ \E c \in Preconditions :
       DeclaredOff("require", c, require_off(c.desc, c, Callable))

EnsureOff ==
  /\ FunctionProgram
  /\ pc = "define"
  /\ Len(declared) < MaxLayers
  /\ \E c \in Postconditions :
       DeclaredOff("ensure", c, ensure_off(c.desc, c, Callable))

TransformOff ==
  /\ FunctionProgram
  /\ pc = "define"
  /\ Len(declared) < MaxLayers
  /\ \E t \in Transformers :
       DeclaredOff("transform", t, transform_off(t, Callable))

InvariantOff ==
  /\ TypeProgram
  /\ ipc = "derive"
  /\ Len(declared) < MaxInvariants
  /\ \E inv \in Invariants :
       /\ declared' = Append(declared, Declaration("invariant", inv))
       /\ table' = invariant_off(inv, table, Len(declared) + 1)
  /\ UNCHANGED <<source, invs, ipc, obj, stack, iresult, ievents, ioutcome,
                 start, cur, prev, ncalls>>
  /\ UNCHANGED <<shape, cvars, bvars, decl, th, types>>

InvokeOff == FunctionProgram /\ Invoke

\* the call goes on in whatever callable it has reached
ChainStep ==
  /\ FunctionProgram
  /\ pc \in {"enter", "exit"}
  /\ IF pc = "enter"
     THEN IF level = 0 THEN Body
          ELSE IF layers[level].kind = "condition" THEN InnerEnter
          ELSE TransformInner
     ELSE IF layers[level].kind = "condition" THEN InnerExit
          ELSE TransformReturn

ConstructOff == TypeProgram /\ Construct

CallMethodOff == TypeProgram /\ CallMethod

\* the method call goes on in whatever wrapper or body it has reached
TypeStep ==
  /\ TypeProgram
  /\ ipc = "run"
  /\ IF TopFrame.phase = "exit" THEN InvariantExit
     ELSE IF TopFrame.lvl >= 1 THEN InvariantEnter
     ELSE RunBody

InitOff ==
  /\ \/ shape \in ChainShapes /\ source = [init |-> TRUE, balance |-> 100]
     \/ shape = ShapeAB /\ source \in SourceTypes
  /\ InitChain
  /\ InitBinder
  /\ InitType
  /\ NoExtra

NextOff ==
  \/ RequireOff
  \/ EnsureOff
  \/ TransformOff
  \/ InvariantOff
  \/ InvokeOff
  \/ ChainStep
  \/ ConstructOff
  \/ CallMethodOff
  \/ TypeStep

SpecOff == InitOff /\ [][NextOff]_vars

\* the events of the call are those of the undecorated callable
PlainEvents ==
  IF Plain.exc = "" THEN <<Event("body", 0, "true")>> ELSE <<>>

PlainOutcome ==
  IF Plain.exc = "" THEN Returned(BodyResult(Plain.rec))
  ELSE Raised(Plain.exc, Plain.by, Plain.param)

\* C21: with enforcement disabled every declaration returns its input
\* unchanged (the callable has no layer, the type's methods no wrapper), no
\* predicate and no rewriter is ever evaluated, no call ends in a contract
\* error, and a call's events, side effects and outcome are those of the
\* undecorated callable; withdraw(150) on a balance of 100 returns normally
\* and leaves the balance at -50.
C21_DisabledIsIdentity ==
  /\ layers = <<>> /\ attr = <<>>
  /\ table = SourceTable(source)
  /\ \A n \in 1..Len(events) : events[n].ev = "body"
  /\ NoChecks
  /\ outcome.kind # "AssertionError" /\ ioutcome.kind # "AssertionError"
  /\ Finished => (events = PlainEvents /\ outcome = PlainOutcome
                  /\ effects = (IF Plain.exc = "" THEN <<Plain.rec>> ELSE <<>>))
  /\ (IFinished /\ cur.meth = "withdraw" /\ cur.recv = "instance") =>
       /\ ioutcome = Returned(0)
       /\ obj.balance = start.balance - cur.arg[1]

C21_Witness ==
  /\ IFinished
  /\ \E i \in 1..Len(declared) : declared[i].desc = "balance must be non-negative"
  /\ cur.meth = "withdraw"
  /\ cur.arg = <<150>>
  /\ start.balance = 100
  /\ obj.balance = -50
  /\ ioutcome.kind = "return"

(***************************************************************************)
(* Declarations, well formed or not: the call that makes the decorator     *)
(* (require, ensure or invariant, given a description and a predicate),    *)
(* then its application to a function or a type, then a use of the result. *)
(***************************************************************************)
\* the descriptions a program passes: the empty text, a text, and a value
\* that is not a str
Descriptions ==
  {[text |-> TRUE, value |-> ""],
   [text |-> TRUE, value |-> "balance must be non-negative"],
   [text |-> FALSE, value |-> ""]}

\* the predicates a program passes: functions of 0, 1 or 2 parameters, and a
\* value that is not a function
PredicateObjects ==
  {[isfunction |-> TRUE, arity |-> n] : n \in 0..2}
    \cup {[isfunction |-> FALSE, arity |-> 1]}

\* the asserts at the head of condition: the message of the first that
\* fails, "" when none does
ConditionError(description, predicate, precondition, postcondition, instance) ==
  IF ~description.text THEN "contract descriptions must be strings"
  ELSE IF description.value = "" THEN "contracts must have nonempty descriptions"
  ELSE IF ~predicate.isfunction THEN "contract predicates must be functions"
  ELSE IF ~(precondition \/ postcondition)
  THEN "contracts must be at least one of pre- or post-conditional"
  ELSE IF predicate.arity # (IF precondition \/ instance THEN 1 ELSE 2)
  THEN "contract predicates must take the correct number of arguments"
  ELSE ""

\* what the call deco(description, predicate) raises: require and ensure
\* call condition, invariant only defines the class decorator
DeclarationError(deco, description, predicate) ==
  IF deco = "require"
  THEN ConditionError(description, predicate, TRUE, FALSE, FALSE)
  ELSE IF deco = "ensure"
  THEN ConditionError(description, predicate, FALSE, TRUE, FALSE)
  ELSE ""

\* a type with no method of its own: class B: x = 1
BareTable == [n \in {"__init__"} |-> [kind |-> "slot", wraps |-> <<>>]]

\* what applying the decorator raises: the class decorator of invariant
\* calls condition for each attribute that passes check
ApplicationError(d, tab) ==
  IF d.deco # "invariant" THEN ""
  ELSE IF {n \in DOMAIN tab : check(n, tab[n].kind)} = {} THEN ""
  ELSE LET n == CHOOSE n \in DOMAIN tab : check(n, tab[n].kind)
       IN ConditionError(d.desc, d.pred, InvariantPrecondition(n), TRUE, TRUE)

DeclIdle == UNCHANGED <<shape, cvars, bvars, ivars, declared, th, types>>

\* deco(description, predicate)
MakeDecorator ==
  /\ decl.stage = "none"
  /\ \E deco \in {"require", "ensure", "invariant"},
        description \in Descriptions, predicate \in PredicateObjects :
       LET e == DeclarationError(deco, description, predicate)
       IN decl' = [deco |-> deco, desc |-> description, pred |-> predicate,
                   stage |-> IF e = "" THEN "made" ELSE "failed",
                   error |-> e,
                   at |-> IF e = "" THEN "" ELSE "declaration"]
  /\ DeclIdle

\* the decorator applied to a function, or to a type
ApplyDecorator ==
  /\ decl.stage = "made"
  /\ \E tab \in {SourceTable(source), BareTable} :
       LET e == ApplicationError(decl, tab)
       IN decl' = [decl EXCEPT !.stage = IF e = "" THEN "applied" ELSE "failed",
                               !.error = e,
                               !.at = IF e = "" THEN "" ELSE "application"]
  /\ DeclIdle

\* the wrapped callable is called, the derived type instantiated
UseDecorated ==
  /\ decl.stage = "applied"
  /\ decl' = [decl EXCEPT !.stage = "used"]
  /\ DeclIdle

InitDecl ==
  /\ shape = ShapeAB
  /\ InitChain
  /\ InitBinder
  /\ source \in SourceTypes
  /\ InitType
  /\ NoExtra

NextDecl == MakeDecorator \/ ApplyDecorator \/ UseDecorated

SpecDecl == InitDecl /\ [][NextDecl]_vars

\* a declaration the claim calls malformed
Malformed(d) ==
  \/ ~d.desc.text
  \/ d.desc.value = ""
  \/ ~d.pred.isfunction
  \/ d.pred.arity # (IF d.deco = "ensure" THEN 2 ELSE 1)

\* C22: a malformed declaration of a precondition, a postcondition or an
\* invariant fails when the decorator is made from the description and the
\* predicate: it never gets as far as being applied or used, and it never
\* fails later than at the declaration.
C22_MalformedFailsAtDeclaration ==
  (decl.stage # "none" /\ Malformed(decl)) =>
    /\ decl.stage = "failed"
    /\ decl.at = "declaration"

(***************************************************************************)
(* Errors raised by predicates and by the body: the chain of Spec on        *)
(* g(a, *, k), whose body may raise after its side effect.                 *)
(***************************************************************************)
\* an inner that catches the body's error and goes on to its checks
SwallowBodyError(o) ==
  IF Top = 0 THEN Raise(o)
  ELSE /\ pc' = "exit"
       /\ level' = 1
       /\ result' = 0
       /\ UNCHANGED <<passed, outcome>>

\* result = f(*args, **kwargs) with no try around it: the error leaves inner
PropagateBodyError(o) == Raise(o)

\* the original callable's body raises after its side effect
BodyRaises ==
  /\ pc = "enter"
  /\ level = 0
  /\ LET b == PyBind(shape, passed.args, passed.kwargs)
     IN /\ b.exc = ""
        /\ frames' = (0 :> Frame(0, b)) @@ frames
        /\ events' = Append(events, Event("body", 0, "raise"))
        /\ effects' = Append(effects, b.rec)
        /\ PropagateBodyError(Raised("ValueError", "body", ""))
  /\ UNCHANGED <<shape, layers, attr, call>>
  /\ UNCHANGED <<bvars, ivars, xvars>>

InitErr ==
  /\ shape = ShapeKwo
  /\ InitChain
  /\ InitBinder
  /\ NoType
  /\ NoExtra

NextErr ==
  \/ ApplyRequire
  \/ ApplyEnsure
  \/ ApplyTransform
  \/ Invoke
  \/ InnerEnter
  \/ TransformInner
  \/ Body
  \/ BodyRaises
  \/ InnerExit
  \/ TransformReturn

SpecErr == InitErr /\ [][NextErr]_vars

\* the n-th event is the last step of the call
LastStep(n) == Finished /\ n = Len(events)

\* C23: when a predicate (or rewriter) raises an error of its own, the call
\* ends with exactly that error, not with a contract violation, and nothing
\* of the chain runs after it: no later predicate and, when the body has not
\* run yet, no body; likewise nothing runs after a contract violation.
C23_PredicateErrorPropagates ==
  \A n \in 1..Len(events) :
    /\ events[n].val = "AttributeError" =>
         /\ LastStep(n)
         /\ outcome.kind = "AttributeError"
         /\ outcome.by \in {"predicate", "transformer"}
         /\ outcome.msg = ""
         /\ events[n].ev \in {"pre", "rewrite"} => (~Entered(0) /\ effects = <<>>)
    /\ events[n].val = "false" =>
         /\ LastStep(n)
         /\ outcome.kind = "AssertionError"

C23_Witness ==
  /\ Finished
  /\ Top = 2
  /\ AllRequire
  /\ layers[2].field = "a"
  /\ layers[1].field = "b"
  /\ events = <<Event("pre", 2, "true"), Event("pre", 1, "AttributeError")>>
  /\ outcome.kind = "AttributeError"

LeftUnbound(i) ==
  /\ shape.named[i] \notin DOMAIN call1.kwargs
  /\ i > Len(call1.args)
  /\ i <= Len(shape.named) - Len(shape.defs)

\* the value the i-th named parameter is to be bound to: its keyword
\* argument, else its positional argument, else its own default, the
\* defaults belonging to the last Len(defs) named parameters
ExpectedValue(i) ==
  IF shape.named[i] \in DOMAIN call1.kwargs THEN call1.kwargs[shape.named[i]]
  ELSE IF i <= Len(call1.args) THEN call1.args[i]
  ELSE shape.defs[i - (Len(shape.named) - Len(shape.defs))]

\* the positional arguments beyond the named parameters
ExpectedTail ==
  [j \in 1..(Len(call1.args) - Len(shape.named)) |->
     call1.args[Len(shape.named) + j]]

\* C25: build_call binds the named parameters to the leading positional
\* arguments in declared order, each unsupplied defaulted parameter to its
\* own default (defaults aligned to the last named parameters), the variadic
\* entry to exactly the positional arguments beyond the named ones (empty
\* when there are none), and overlays the keyword arguments on the entries
\* of the same name; it fails only when a named parameter is left unbound.
C25_BindingAlgorithm ==
  bpc # "start" =>
    LET n == Len(shape.named)
    IN /\ res1.exc = "" <=> ~\E i \in 1..n : LeftUnbound(i)
       /\ res1.exc = "" =>
            /\ \A i \in 1..n : res1.rec[shape.named[i]] = ExpectedValue(i)
            /\ shape.vargs # "" =>
                 /\ shape.vargs \in DOMAIN res1.rec
                 /\ res1.rec[shape.vargs] = ExpectedTail
            /\ DOMAIN res1.rec =
                 Range(shape.named) \cup DOMAIN call1.kwargs
                   \cup (IF shape.vargs # "" THEN {shape.vargs} ELSE {})

C25_Witness ==
  /\ bpc # "start"
  /\ shape = ShapeVar
  /\ call1 = [args |-> <<1>>, kwargs |-> NoKw]
  /\ res1.exc = ""
  /\ res1.rec["a"] = 1
  /\ res1.rec["b"] = 0
  /\ res1.rec["c"] = <<>>

(***************************************************************************)
(* The legacy module contracts.py has its own build_call.  It returns the  *)
(* dictionary itself.  Its defaults are zipped onto the positional         *)
(* argument VALUES, so the dictionary gets one key per trailing argument   *)
(* value; such a key is written here as the value's decimal numeral, which *)
(* no parameter name equals.                                               *)
(***************************************************************************)
Numerals == <<"0", "1", "2", "3", "4", "5", "6", "7", "8", "9">>

ValueKey(v) == Numerals[v + 1]

\* dict(zip(reversed(args), reversed(defs))): the pairs are taken from the
\* last argument and the last default backwards, a later pair replacing an
\* earlier one of the same key
ZipReversedArgs(args, defs) ==
  LET pairs == 0..(Min(Len(args), Len(defs)) - 1)
      At(key) == {j \in pairs : ValueKey(args[Len(args) - j]) = key}
  IN [key \in {ValueKey(args[Len(args) - j]) : j \in pairs} |->
        defs[Len(defs) - (CHOOSE j \in At(key) : \A i \in At(key) : i <= j)]]

legacy_build_call(sh, args, kwargs) ==
  LET named   == sh.named
      actual0 == [k \in Range(named) |-> NONCE]
      actual1 == Update(actual0, ZipReversedArgs(args, sh.defs))
      actual2 == Update(actual1, sh.kwonlydefs)
      actual3 == Update(actual2, ZipArgs(named, args))
      actual4 == IF sh.vargs # ""
                 THEN Update(actual3,
                        [k \in {sh.vargs} |->
                           SubSeq(args, Len(named) + 1, Len(args))])
                 ELSE actual3
      actual  == Update(actual4, kwargs)
      unset   == {i \in 1..Len(named) : actual[named[i]] = NONCE}
  IN IF unset # {}
     THEN Missing("build_call", named[Least(unset)])
     ELSE Bound(actual)

\* a call of the legacy build_call on the shape
BindLegacy ==
  /\ bpc = "start"
  /\ \E c \in Calls(shape) :
       /\ call1' = c
       /\ res1' = legacy_build_call(shape, c.args, c.kwargs)
  /\ bpc' = "legacy"
  /\ UNCHANGED <<shape, cvars, call2, res2, ivars, xvars>>

NextLegacy == BindLegacy

SpecLegacy == InitBind /\ [][NextLegacy]_vars

\* C26: the legacy build_call binds an omitted positional parameter that
\* has a declared default to that default, so a call that omits only
\* defaulted parameters binds successfully.
C26_LegacyBindsDefaults ==
  (bpc = "legacy" /\ ~\E i \in 1..Len(shape.named) : LeftUnbound(i)) =>
    /\ res1.exc = ""
    /\ \A i \in 1..Len(shape.named) :
         res1.rec[shape.named[i]] = ExpectedValue(i)

(***************************************************************************)
(* Derivation keeps every type.  types[1] is the source type and types[k]  *)
(* the type derived by the (k-1)-th invariant; a program may create its    *)
(* instance from any of them, and may go on deriving afterwards.  Here     *)
(* table is the type the instance was created from.                        *)
(***************************************************************************)
\* setattr on the type being decorated instead of on a new subclass
DeriveInPlace(ts, new) == Append([ts EXCEPT ![Len(ts)] = new], new)

\* class InvariantContractor(c): pass, then setattr on InvariantContractor
DeriveInto(ts, new) == Append(ts, new)

\* @invariant(desc, predicate) applied to the latest type
Derive ==
  /\ ipc \in {"derive", "idle"}
  /\ Len(invs) < MaxInvariants
  /\ \E inv \in Invariants \ Range(invs) :
       /\ invs' = Append(invs, inv)
       /\ types' = DeriveInto(types,
                     invariant(inv, types[Len(types)], Len(invs) + 1))
  /\ UNCHANGED <<source, table, ipc, obj, stack, iresult, ievents, ioutcome,
                 start, cur, prev, ncalls>>
  /\ UNCHANGED <<shape, cvars, bvars, declared, decl, th>>

\* the program picks the type it is going to instantiate
ChooseType ==
  /\ ipc = "derive"
  /\ ~obj.exists
  /\ \E k \in 1..Len(types) : table' = types[k]
  /\ ipc' = "idle"
  /\ UNCHANGED <<source, invs, obj, stack, iresult, ievents, ioutcome, start,
                 cur, prev, ncalls>>
  /\ IdleChain

InitDerive ==
  /\ shape = ShapeAB
  /\ InitChain
  /\ InitBinder
  /\ source \in SourceTypes
  /\ InitType
  /\ declared = <<>>
  /\ decl = NoDecl
  /\ th = <<>>
  /\ types = <<SourceTable(source)>>

NextDerive ==
  \/ Derive
  \/ ChooseType
  \/ Construct
  \/ CallMethod
  \/ InvariantEnter
  \/ RunBody
  \/ InvariantExit

SpecDerive == InitDerive /\ [][NextDerive]_vars

\* the instance in use was created directly from the source type
OfSourceType == table = types[1]

\* C28: deriving a contracted type leaves the source type unchanged: after
\* any number of derivations the source type's method table is the one it
\* was defined with and wraps nothing, each derived type is still exactly
\* what its own derivation made of its predecessor (a further invariant does
\* not touch it), and no call on an instance created directly from the
\* source type evaluates an invariant.
C28_DerivationLeavesSourceUnchanged ==
  /\ types[1] = SourceTable(source)
  /\ \A n \in DOMAIN types[1] : types[1][n].wraps = <<>>
  /\ Len(types) = Len(invs) + 1
  /\ \A k \in 2..Len(types) :
       /\ types[k] = invariant(invs[k - 1], types[k - 1], k - 1)
       /\ \A n \in DOMAIN types[k] : Len(types[k][n].wraps) <= k - 1
  /\ OfSourceType =>
       \A i \in 1..Len(ievents) : ievents[i].ev = "body"

C28_Witness ==
  /\ OfSourceType
  /\ Len(types) = 3
  /\ obj.exists
  /\ ipc = "idle"
  /\ cur.meth = "withdraw"
  /\ ioutcome.kind = "return"
  /\ obj.balance < 0
  /\ ievents # <<>>
  /\ \E k \in 2..3 : types[k]["withdraw"].wraps # <<>>

(***************************************************************************)
(* Two invocations of the same wrapped callable on two threads.  The       *)
(* variables pc, call, level, passed, frames, result, outcome and events   *)
(* are the local variables of the invocation whose thread is running; th   *)
(* holds those of the other thread while it is suspended, with the chain   *)
(* as it was when that thread began.  The interpreter may switch threads   *)
(* between any two steps.                                                  *)
(***************************************************************************)
Locals ==
  [pc |-> pc, call |-> call, level |-> level, passed |-> passed,
   frames |-> frames, result |-> result, outcome |-> outcome,
   events |-> events]

\* the local variables of a call of the outermost callable that has just begun
NewInvocation(d) ==
  [pc |-> "enter", call |-> d, level |-> Top, passed |-> d, frames |-> <<>>,
   result |-> 0, outcome |-> Pending, events |-> <<>>]

Chain == [shape |-> shape, layers |-> layers, attr |-> attr]

\* the calls the two threads make: by keyword
ThreadCalls == {c \in Calls(shape) : c.args = <<>>}

\* the other thread's call: the same keywords, with another value for the
\* first parameter, which is the one the predicates and the rewriter read
OtherCalls(c) ==
  {d \in ThreadCalls :
     /\ DOMAIN d.kwargs = DOMAIN c.kwargs
     /\ shape.named[1] \in DOMAIN c.kwargs
     /\ \A k \in DOMAIN c.kwargs :
          (d.kwargs[k] = c.kwargs[k]) <=> (k # shape.named[1])}

\* bound records kept where both invocations find them: the resumed thread
\* sees what the other one has bound since
ResumeSharedRecords(saved, current) ==
  [saved EXCEPT !.frames = current.frames @@ saved.frames]

\* rargs, args and kwargs are local variables of inner: a resumed thread
\* finds its own
Resume(saved, current) == saved

\* a second thread calls the same callable with other arguments
Spawn ==
  /\ pc # "define"
  /\ th = <<>>
  /\ call \in ThreadCalls
  /\ \E d \in OtherCalls(call) :
       th' = <<[chain |-> Chain, locals |-> NewInvocation(d)]>>
  /\ UNCHANGED <<shape, cvars, bvars, ivars, declared, decl, types>>

\* the running thread is suspended and the other one resumed
Switch ==
  /\ Len(th) = 1
  /\ th[1].locals.pc # "done"
  /\ LET next == Resume(th[1].locals, Locals)
     IN /\ pc' = next.pc
        /\ call' = next.call
        /\ level' = next.level
        /\ passed' = next.passed
        /\ frames' = next.frames
        /\ result' = next.result
        /\ outcome' = next.outcome
        /\ events' = next.events
  /\ th' = <<[th[1] EXCEPT !.locals = Locals]>>
  /\ UNCHANGED <<shape, layers, attr, effects>>
  /\ UNCHANGED <<bvars, ivars, declared, decl, types>>

InitConc ==
  /\ shape = ShapeKwo
  /\ InitChain
  /\ InitBinder
  /\ NoType
  /\ NoExtra

NextConc ==
  \/ ApplyRequire
  \/ ApplyEnsure
  \/ ApplyTransform
  \/ Invoke
  \/ Spawn
  \/ Switch
  \/ InnerEnter
  \/ TransformInner
  \/ Body
  \/ InnerExit
  \/ TransformReturn

SpecConc == InitConc /\ [][NextConc]_vars

\* what a failed assert or a failing predicate raises
Failure(v, layer) ==
  IF v = "false" THEN Violation(layer.desc)
  ELSE Raised(v, "predicate", layer.field)

Alone(o, evs) == [outcome |-> o, events |-> evs]

\* the outcome of a call of layer l with the arguments p when nothing else
\* runs, and the predicates, rewriters and body evaluated on the way
RECURSIVE RunAlone(_, _)
RunAlone(l, p) ==
  IF l = 0
  THEN LET b == PyBind(shape, p.args, p.kwargs)
       IN IF b.exc # ""
          THEN Alone(Raised(b.exc, b.by, b.param), <<>>)
          ELSE Alone(Returned(BodyResult(b.rec)), <<Event("body", 0, "true")>>)
  ELSE
    LET layer == layers[l]
        r     == build_call(l - 1, p.args, p.kwargs)
    IN IF r.exc # "" THEN Alone(Raised(r.exc, r.by, r.param), <<>>)
       ELSE IF layer.kind = "transform"
       THEN IF layer.field \notin DOMAIN r.rec
            THEN Alone(Raised("AttributeError", "transformer", layer.field),
                       <<Event("rewrite", l, "AttributeError")>>)
            ELSE LET in == RunAlone(l - 1, [args |-> <<>>,
                                            kwargs |-> Transformer(layer, r.rec)])
                 IN Alone(in.outcome, <<Event("rewrite", l, "true")>> \o in.events)
       ELSE
         LET pre   == PrePredicate(layer, r.rec)
             preEv == IF layer.precondition
                      THEN <<Event("pre", l, pre)>> ELSE <<>>
         IN IF layer.precondition /\ pre # "true"
            THEN Alone(Failure(pre, layer), preEv)
            ELSE
              LET in == RunAlone(l - 1, p)
              IN IF in.outcome.kind # "return" \/ ~layer.postcondition
                 THEN Alone(in.outcome, preEv \o in.events)
                 ELSE
                   LET post == PostPredicate(layer, r.rec, in.outcome.value[1])
                   IN Alone(IF post = "true" THEN in.outcome
                            ELSE Failure(post, layer),
                            preEv \o in.events \o <<Event("post", l, post)>>)

\* the invocations in progress or finished: the running one and the
\* suspended one
Invocations ==
  (IF pc = "define" THEN {} ELSE {Locals}) \cup {th[i].locals : i \in 1..Len(th)}

\* every record an invocation holds was bound from the arguments that
\* invocation's own layer received, the outermost from the caller's
OwnRecords(inv) ==
  /\ \A l \in DOMAIN inv.frames :
       l >= 1 =>
         inv.frames[l].bind =
           build_call(l - 1, inv.frames[l].args, inv.frames[l].kwargs)
  /\ (Top >= 1 /\ Top \in DOMAIN inv.frames) =>
       /\ inv.frames[Top].args = inv.call.args
       /\ inv.frames[Top].kwargs = inv.call.kwargs

\* what the invocation has evaluated so far is what it evaluates alone, and
\* so is its outcome once it has one
AsAlone(inv) ==
  LET alone == RunAlone(Top, inv.call)
  IN /\ IsPrefix(inv.events, alone.events)
     /\ inv.pc = "done" =>
          /\ inv.outcome = alone.outcome
          /\ inv.events = alone.events

\* C24: for any interleaving of two invocations of the same wrapped callable
\* with different arguments, every record an invocation holds is bound from
\* its own arguments, every predicate it evaluates gives what it gives when
\* the invocation runs alone, its outcome is its outcome when run alone, and
\* the shared chain (shape, conditions, layer order) stays as it was when the
\* second invocation began.
C24_ConcurrentInvocationsIndependent ==
  /\ \A inv \in Invocations : OwnRecords(inv) /\ AsAlone(inv)
  /\ \A i \in 1..Len(th) : th[i].chain = Chain

\* both invocations are inside the outermost layer at once, holding
\* different records, and the running one has evaluated a predicate
C24_Witness ==
  /\ Len(th) = 1
  /\ Top = 2
  /\ pc = "exit"
  /\ th[1].locals.pc \in {"enter", "exit"}
  /\ Top \in DOMAIN frames
  /\ Top \in DOMAIN th[1].locals.frames
  /\ frames[Top].bind.exc = ""
  /\ th[1].locals.frames[Top].bind.exc = ""
  /\ frames[Top].bind # th[1].locals.frames[Top].bind
  /\ \E j \in 1..Len(events) : events[j].ev = "pre"

====
